---- MODULE Spec2Model ----
(***************************************************************************)
(* leanpub-scraper: the login workflow of src/src/main.rs (login,          *)
(* verify_login, fetch_published_books) as a state machine.                 *)
(*                                                                         *)
(* Strings whose contents the code inspects (URLs, titles, hrefs, anchor   *)
(* texts, credentials) are sequences of one-character strings, so that     *)
(* trim, contains, endsWith and the two regex replacements are computed    *)
(* character by character.  A call into the browser engine (page.eval,     *)
(* goto) returns a Result: [ok |-> TRUE, val |-> v] or [ok |-> FALSE].     *)
(***************************************************************************)
EXTENDS Integers, Sequences, FiniteSets, TLC

VARIABLES
    pc,             \* the step login() is about to execute, "done" after return
    result,         \* login()'s return value: "running", "Ok" or "Err"
    trace,          \* the steps executed so far, in execution order
    log,            \* the messages printed so far (println!/eprintln!), as tags
    fatalSite,      \* the call whose error was propagated by `?`, "none" if none
    absorbedAt,     \* the latest call whose error was swallowed, "none" if none
    env,            \* process environment: LEANPUB_EMAIL / LEANPUB_PASSWORD
    email,          \* local `email` of login() (line 134)
    password,       \* local `password` of login() (line 135)
    attempt,        \* loop variable of the reCAPTCHA poll (line 82)
    tokenEvals,     \* evaluations of the reCAPTCHA predicate performed
    tokenTrueAt,    \* first attempt (1-based) whose captcha_val was non-empty, 0 if none
    authEvals,      \* evaluations of the location.href poll performed (line 173)
    authMatched,    \* the heuristic of line 174 held at the last evaluation
    dom,            \* the login page as fill_and_submit found and left it
    filled,         \* local `filled` of login() (line 163): "none", TRUE or FALSE
    verified,       \* what verify_login returned to login(): "none", TRUE or FALSE
    verifyCalls,    \* number of calls of verify_login made by login()
    books,          \* the list fetch_published_books returned to login()
    call            \* a direct call of verify_login / fetch_published_books:
                    \* its inputs (the page) and its return value

vars ==
    <<pc, result, trace, log, fatalSite, absorbedAt, env, email, password,
      attempt, tokenEvals, tokenTrueAt, authEvals, authMatched, dom, filled,
      verified, verifyCalls, books, call>>

(***************************************************************************)
(* Literals of the source.                                                 *)
(***************************************************************************)
\* "https://leanpub.com/author_dashboard/books/published"
PUBLISHED_URL ==
    <<"h", "t", "t", "p", "s", ":", "/", "/", "l", "e", "a", "n", "p", "u",
      "b", ".", "c", "o", "m", "/", "a", "u", "t", "h", "o", "r", "_", "d",
      "a", "s", "h", "b", "o", "a", "r", "d", "/", "b", "o", "o", "k", "s",
      "/", "p", "u", "b", "l", "i", "s", "h", "e", "d">>

\* "https://leanpub.com/login"
LOGIN_URL ==
    <<"h", "t", "t", "p", "s", ":", "/", "/", "l", "e", "a", "n", "p", "u",
      "b", ".", "c", "o", "m", "/", "l", "o", "g", "i", "n">>

\* "https://leanpub.com/u/jane"
USER_URL ==
    <<"h", "t", "t", "p", "s", ":", "/", "/", "l", "e", "a", "n", "p", "u",
      "b", ".", "c", "o", "m", "/", "u", "/", "j", "a", "n", "e">>

\* "Leanpub - Your Books"
YOUR_BOOKS_TITLE ==
    <<"L", "e", "a", "n", "p", "u", "b", " ", "-", " ", "Y", "o", "u", "r",
      " ", "B", "o", "o", "k", "s">>

\* "author_dashboard"
AUTHOR_DASHBOARD ==
    <<"a", "u", "t", "h", "o", "r", "_", "d", "a", "s", "h", "b", "o", "a",
      "r", "d">>

\* "/u/"
U_SEGMENT ==
    <<"/", "u", "/">>


(***************************************************************************)
(* Results and options, and the string methods the code uses.              *)
(***************************************************************************)
Ok(v) ==
    [ok |-> TRUE, val |-> v]

Err ==
    [ok |-> FALSE]

Some(v) ==
    [some |-> TRUE, val |-> v]

None ==
    [some |-> FALSE]

\* Result::unwrap_or_default, given the type's default
unwrap_or_default(r, default) ==
    IF r.ok THEN r.val ELSE default

\* str::is_empty
is_empty(s) ==
    Len(s) = 0

\* str::contains(&str)
contains(s, pat) ==
    \E i \in 1..(Len(s) - Len(pat) + 1) : SubSeq(s, i, i + Len(pat) - 1) = pat

\* char::is_whitespace / the white space String.prototype.trim removes,
\* over the characters the inputs are built from
WhiteSpace ==
    {" ", "\t", "\n"}

\* str::trim_start
RECURSIVE trim_start(_)
trim_start(s) ==
    IF Len(s) > 0 /\ Head(s) \in WhiteSpace THEN trim_start(Tail(s)) ELSE s

\* str::trim_end
RECURSIVE trim_end(_)
trim_end(s) ==
    IF Len(s) > 0 /\ s[Len(s)] \in WhiteSpace
    THEN trim_end(SubSeq(s, 1, Len(s) - 1))
    ELSE s

\* str::trim
trim(s) ==
    trim_end(trim_start(s))

\* str::replace('\'', "\\'") of lines 144-145
RECURSIVE escape_quotes(_)
escape_quotes(s) ==
    IF Len(s) = 0 THEN <<>>
    ELSE IF Head(s) = "'" THEN <<"\\", "'">> \o escape_quotes(Tail(s))
    ELSE <<Head(s)>> \o escape_quotes(Tail(s))

\* The value of the JavaScript literal '<body>' of lines 149 and 151: a
\* backslash takes the next character as it is (true of ' and \, the only
\* escapes escape_quotes produces); a bare quote ends the literal before the
\* text does and a trailing backslash swallows the closing quote, and then the
\* script is not the one written: Err.
RECURSIVE js_literal(_, _)
js_literal(body, acc) ==
    IF Len(body) = 0 THEN Ok(acc)
    ELSE IF Head(body) = "'" THEN Err
    ELSE IF Head(body) = "\\"
         THEN IF Len(body) = 1 THEN Err
              ELSE js_literal(SubSeq(body, 3, Len(body)), Append(acc, body[2]))
    ELSE js_literal(Tail(body), Append(acc, Head(body)))

(***************************************************************************)
(* Program constants and the inputs of the workflow.                       *)
(***************************************************************************)
\* `for attempt in 0..30`
TokenAttempts ==
    30

\* `if attempt == 29`
TokenLastAttempt ==
    29

\* `for _ in 0..20`
AuthAttempts ==
    20

\* "o'b@x.io"
EMAIL ==
    <<"o", "'", "b", "@", "x", ".", "i", "o">>

\* "pw"
PASSWORD ==
    <<"p", "w">>

\* "03A"
TOKEN ==
    <<"0", "3", "A">>

\* std::env::var of one variable: Err when unset, Ok("") when set but empty
EnvValues(v) ==
    {Err, Ok(<<>>), Ok(v)}

\* The process environment login() may start in
Environments ==
    [LEANPUB_EMAIL : EnvValues(EMAIL), LEANPUB_PASSWORD : EnvValues(PASSWORD)]

\* What a .env file may define (Err: the file, or the key in it, is absent)
DotenvFiles ==
    [LEANPUB_EMAIL : {Err, Ok(EMAIL)}, LEANPUB_PASSWORD : {Err, Ok(PASSWORD)}]

\* dotenvy::dotenv(): a key of the file is set unless the process has it already
dotenv(e, file) ==
    [k \in DOMAIN e |-> IF e[k].ok THEN e[k] ELSE file[k]]

\* What the reCAPTCHA evaluation of lines 84-90 may return: the field is
\* absent or empty (''), holds a token, or the evaluation fails
CaptchaReads ==
    {Ok(<<>>), Ok(TOKEN), Err}

\* What `location.href` may return inside the poll of line 173
PollUrlReads ==
    {Ok(LOGIN_URL), Ok(USER_URL), Ok(PUBLISHED_URL), Err}

\* The login page as the script of lines 147-158 may find it: whether the two
\* inputs exist, whether the email input belongs to a form (emailInput.form),
\* and whether the document has a form at all (document.querySelector('form'))
LoginPages ==
    {p \in [emailInput : BOOLEAN, pwInput : BOOLEAN, emailForm : BOOLEAN,
            firstForm : BOOLEAN, emailValue : {<<>>}, pwValue : {<<>>},
            submitted : {FALSE}] :
        p.emailForm => (p.emailInput /\ p.firstForm)}

(***************************************************************************)
(* verify_login (lines 21-42).                                             *)
(***************************************************************************)
\* Mutant of success: the title is compared without trimming
success_untrimmed(final_url, published_title) ==
    final_url = PUBLISHED_URL /\ published_title = YOUR_BOOKS_TITLE

\* line 32: `final_url == PUBLISHED_URL && published_title.trim() == "..."`
success(final_url, published_title) ==
    final_url = PUBLISHED_URL /\ trim(published_title) = YOUR_BOOKS_TITLE

\* verify_login on a page whose navigation ends as `nav` and whose two reads
\* return `urlRead` and `titleRead`: the value returned, what is printed, and
\* the call whose error was swallowed
verify_login(nav, urlRead, titleRead) ==
    IF ~nav.ok
    THEN [ret |-> Ok(FALSE),
          log |-> {"Navigation to published books page failed"},
          absorbed |-> "verifyNavigation"]
    ELSE LET final_url == unwrap_or_default(urlRead, <<>>)
             published_title == unwrap_or_default(titleRead, <<>>)
             ok == success(final_url, published_title)
         IN  [ret |-> Ok(ok),
              log |-> {IF ok THEN "Login success verified"
                             ELSE "Login verification failed"},
              absorbed |-> IF ~titleRead.ok THEN "verifyTitle"
                           ELSE IF ~urlRead.ok THEN "verifyUrl"
                           ELSE "none"]

(***************************************************************************)
(* fetch_published_books (lines 45-67).                                    *)
(***************************************************************************)
\* "/overview"
OVERVIEW ==
    <<"/", "o", "v", "e", "r", "v", "i", "e", "w">>

\* "https://"
HTTPS ==
    <<"h", "t", "t", "p", "s", ":", "/", "/">>

\* "http://"
HTTP ==
    <<"h", "t", "t", "p", ":", "/", "/">>

\* The first index of s holding a character of cs, Len(s) + 1 if there is none
index_of(s, cs) ==
    IF \E i \in 1..Len(s) : s[i] \in cs
    THEN CHOOSE i \in 1..Len(s) : s[i] \in cs /\ \A j \in 1..(i - 1) : s[j] \notin cs
    ELSE Len(s) + 1

starts_with(s, pre) ==
    Len(s) >= Len(pre) /\ SubSeq(s, 1, Len(pre)) = pre

\* String.prototype.endsWith
endsWith(s, suf) ==
    Len(s) >= Len(suf) /\ SubSeq(s, Len(s) - Len(suf) + 1, Len(s)) = suf

\* String.prototype.includes of one character
includes(s, c) ==
    \E i \in 1..Len(s) : s[i] = c

\* The path of what follows the authority, or of an absolute path: up to the
\* query, and "/" when that is empty
path_of(s) ==
    LET p == SubSeq(s, 1, index_of(s, {"?"}) - 1)
    IN  IF Len(p) = 0 THEN <<"/">> ELSE p

\* What follows "//": the authority up to the path; an empty host does not parse
after_slashes(rest) ==
    LET authEnd == index_of(rest, {"/", "?"})
    IN  IF authEnd = 1 THEN Err
        ELSE Ok(path_of(SubSeq(rest, authEnd, Len(rest))))

\* line 53: `new URL(href, location.origin).pathname`, Err when the
\* constructor throws.  The fragment is dropped; an http(s) or scheme-relative
\* href brings its own path; any other href is resolved against the origin,
\* whose path is "/".  (Dot segments, other schemes, backslashes and control
\* characters are outside the hrefs enumerated below.)
url_pathname(href) ==
    LET h == SubSeq(href, 1, index_of(href, {"#"}) - 1)
    IN  IF starts_with(h, HTTPS) THEN after_slashes(SubSeq(h, Len(HTTPS) + 1, Len(h)))
        ELSE IF starts_with(h, HTTP) THEN after_slashes(SubSeq(h, Len(HTTP) + 1, Len(h)))
        ELSE IF starts_with(h, <<"/", "/">>) THEN after_slashes(SubSeq(h, 3, Len(h)))
        ELSE IF starts_with(h, <<"/">>) THEN Ok(path_of(h))
        ELSE Ok(path_of(<<"/">> \o h))

\* line 55: `.replace(/^\//,'')`
strip_leading_slash(s) ==
    IF Len(s) > 0 /\ Head(s) = "/" THEN Tail(s) ELSE s

\* line 55: `.replace(/\/overview$/,'')`
strip_overview(s) ==
    IF endsWith(s, OVERVIEW) THEN SubSeq(s, 1, Len(s) - Len(OVERVIEW)) ELSE s

\* line 55: the slug of a pathname
slug_of(pathname) ==
    strip_overview(strip_leading_slash(pathname))

\* line 57: String.prototype.trim
js_trim(s) ==
    trim_end(trim_start(s))

\* lines 50-62: the loop over the anchors, `out` being the entries so far
RECURSIVE collect(_, _)
collect(anchors, out) ==
    IF Len(anchors) = 0 THEN out
    ELSE LET a == Head(anchors)
             url == url_pathname(a.href)
             slug == slug_of(url.val)
             title == js_trim(a.text)
             keep == /\ url.ok
                     /\ endsWith(url.val, OVERVIEW)
                     /\ ~(Len(slug) = 0 \/ includes(slug, "/"))
                     /\ Len(title) # 0
                     /\ ~\E i \in 1..Len(out) : out[i].slug = slug
         IN  collect(Tail(anchors),
                     IF keep THEN Append(out, [slug |-> slug, title |-> title])
                     ELSE out)

\* fetch_published_books on a page whose evaluation returns `page`: Err (the
\* `?` of line 65) or the list the script builds from the page's anchors
fetch_published_books(page) ==
    IF page.ok THEN Ok(collect(page.val, <<>>)) ELSE Err

(***************************************************************************)
(* login (lines 70-209).                                                   *)
(***************************************************************************)
\* Mutant of error_policy: a failed initial navigation is logged, not propagated
error_policy_navigation_logged ==
    [bootstrap |-> "propagate", navigate |-> "log", tokenPoll |-> "default",
     inspectForm |-> "propagate", formAction |-> "propagate", fill |-> "propagate",
     authPoll |-> "default", title |-> "default", userIndicator |-> "default",
     verifyLogin |-> "propagate", fetch |-> "log"]

\* Mutant of error_policy: the reCAPTCHA evaluation is followed by `?`
error_policy_poll_propagates ==
    [bootstrap |-> "propagate", navigate |-> "propagate", tokenPoll |-> "propagate",
     inspectForm |-> "propagate", formAction |-> "propagate", fill |-> "propagate",
     authPoll |-> "default", title |-> "default", userIndicator |-> "default",
     verifyLogin |-> "propagate", fetch |-> "log"]

\* What login() does with an error of each call into the engine: "propagate"
\* for a call followed by `?` (lines 71-76, 79, 117, 127, 163, 191),
\* "default" for one followed by unwrap_or_default / unwrap_or(None)
\* (lines 90, 173, 183, 185), "log" for the Err arm of line 199
error_policy ==
    [bootstrap |-> "propagate", navigate |-> "propagate", tokenPoll |-> "default",
     inspectForm |-> "propagate", formAction |-> "propagate", fill |-> "propagate",
     authPoll |-> "default", title |-> "default", userIndicator |-> "default",
     verifyLogin |-> "propagate", fetch |-> "log"]

OnError(site) ==
    error_policy[site]

\* Mutant of token_break: the poll never breaks
token_break_never(captcha_val) ==
    FALSE

\* line 91: the poll's `break`
token_break(captcha_val) ==
    ~is_empty(captcha_val)

\* Mutant of token_timeout: the test is off by one and never true
token_timeout_off_by_one(a) ==
    a = TokenAttempts

\* line 99: the timeout message is printed on the last attempt
token_timeout(a) ==
    a = TokenLastAttempt

\* Mutant of auth_loop_continues: the range is 0..=20
auth_loop_one_more(done) ==
    done <= AuthAttempts

\* line 171: whether the range 0..20 has an iteration after `done` of them
auth_loop_continues(done) ==
    done < AuthAttempts

\* Mutant of credentials_missing: && for ||
credentials_missing_both(e, p) ==
    is_empty(e) /\ is_empty(p)

\* line 136
credentials_missing(e, p) ==
    is_empty(e) \/ is_empty(p)

\* Mutant of both_found: || for &&
either_found(emailInput, pwInput) ==
    emailInput \/ pwInput

\* line 157: `return !!(emailInput && pwInput)`
both_found(emailInput, pwInput) ==
    emailInput /\ pwInput

\* line 152: `emailInput ? emailInput.form : document.querySelector('form')`,
\* as whether a form was found
form_of(page) ==
    IF page.emailInput THEN page.emailForm ELSE page.firstForm

\* lines 147-158: the script, given the page and the two escaped values spliced
\* into it; Err when the spliced text is not the script written, else the page
\* it leaves and the value it returns
fill_and_submit(page, safe_email, safe_password) ==
    LET e == js_literal(safe_email, <<>>)
        p == js_literal(safe_password, <<>>)
    IN  IF ~e.ok \/ ~p.ok THEN Err
        ELSE Ok([page |-> [page EXCEPT
                              !.emailValue = IF page.emailInput THEN e.val ELSE @,
                              !.pwValue = IF page.pwInput THEN p.val ELSE @,
                              !.submitted = form_of(page)],
                 ret |-> both_found(page.emailInput, page.pwInput)])

\* line 174
auth_heuristic(url) ==
    contains(url, AUTHOR_DASHBOARD) \/ contains(url, U_SEGMENT)

\* Mutant of proceeds_to_fetch: the books are fetched whatever verify_login said
proceeds_to_fetch_always(ok) ==
    TRUE

\* lines 191-192: the arm of the match that calls fetch_published_books
proceeds_to_fetch(ok) ==
    ok

\* The pages verify_login may meet inside login()
VerifyUrlReads ==
    {Ok(PUBLISHED_URL), Ok(LOGIN_URL), Err}

VerifyTitleReads ==
    {Ok(YOUR_BOOKS_TITLE), Ok(<<" ">> \o YOUR_BOOKS_TITLE \o <<" ">>),
     Ok(<<"L", "o", "g", " ", "i", "n">>), Err}

Init ==
    /\ pc = "Bootstrap"
    /\ result = "running"
    /\ trace = <<>>
    /\ log = {}
    /\ fatalSite = "none"
    /\ absorbedAt = "none"
    /\ env \in Environments
    /\ email = <<>>
    /\ password = <<>>
    /\ attempt = 0
    /\ tokenEvals = 0
    /\ tokenTrueAt = 0
    /\ authEvals = 0
    /\ authMatched = FALSE
    /\ dom = None
    /\ filled = None
    /\ verified = None
    /\ verifyCalls = 0
    /\ books = None
    /\ call = None

\* An error leaves login() through `?`: nothing after the call is executed
Propagate(site) ==
    /\ pc' = "done"
    /\ result' = "Err"
    /\ fatalSite' = site

\* Mutant of ReturnOk: the workflow is started again instead of returning
ReturnOk_retry ==
    /\ pc' = "Bootstrap"
    /\ result' = result
    /\ fatalSite' = fatalSite

\* `return Ok(())` (lines 140, 203, 208)
ReturnOk ==
    /\ pc' = "done"
    /\ result' = "Ok"
    /\ fatalSite' = fatalSite

Goto(step) ==
    /\ pc' = step
    /\ result' = result
    /\ fatalSite' = fatalSite

\* lines 71-76: Playwright::initialize, prepare, launch, context, new_page
Bootstrap ==
    /\ pc = "Bootstrap"
    /\ trace' = Append(trace, "Bootstrap")
    /\ \E r \in {Ok(TRUE), Err} :
         IF ~r.ok /\ OnError("bootstrap") = "propagate"
         THEN Propagate("bootstrap")
         ELSE Goto("Navigate")
    /\ UNCHANGED <<log, absorbedAt, env, email, password, attempt, tokenEvals,
                   tokenTrueAt, authEvals, authMatched, dom, filled, verified,
                   verifyCalls, books, call>>

\* lines 77-79: goto("https://leanpub.com/login"), whose error goes the way
\* error_policy says
Navigate ==
    /\ pc = "Navigate"
    /\ trace' = Append(trace, "Navigate")
    /\ \E r \in {Ok(TRUE), Err} :
         IF ~r.ok /\ OnError("navigate") = "propagate"
         THEN Propagate("navigate") /\ UNCHANGED <<log, absorbedAt>>
         ELSE /\ Goto("PollToken")
              /\ absorbedAt' = IF r.ok THEN absorbedAt ELSE "navigate"
              /\ log' = IF r.ok THEN log ELSE log \cup {"Navigation failed"}
    /\ UNCHANGED <<env, email, password, attempt, tokenEvals, tokenTrueAt,
                   authEvals, authMatched, dom, filled, verified, verifyCalls,
                   books, call>>

\* lines 82-103: one iteration of the reCAPTCHA poll
PollToken ==
    /\ pc = "PollToken"
    /\ trace' = IF attempt = 0 THEN Append(trace, "PollToken") ELSE trace
    /\ \E r \in CaptchaReads :
         IF ~r.ok /\ OnError("tokenPoll") = "propagate"
         THEN /\ Propagate("tokenPoll")
              /\ UNCHANGED <<log, absorbedAt, attempt, tokenEvals, tokenTrueAt>>
         ELSE LET captcha_val == unwrap_or_default(r, <<>>)
              IN  /\ tokenEvals' = tokenEvals + 1
                  /\ absorbedAt' = IF r.ok THEN absorbedAt ELSE "tokenPoll"
                  /\ tokenTrueAt' = IF tokenTrueAt = 0 /\ ~is_empty(captcha_val)
                                    THEN attempt + 1 ELSE tokenTrueAt
                  /\ IF token_break(captcha_val)
                     THEN /\ log' = log \cup {"reCAPTCHA field populated"}
                          /\ attempt' = attempt
                          /\ Goto("InspectForm")
                     ELSE /\ log' = IF token_timeout(attempt)
                                    THEN log \cup {"reCAPTCHA field not populated within timeout"}
                                    ELSE log
                          /\ attempt' = attempt + 1
                          /\ Goto(IF attempt + 1 < TokenAttempts
                                  THEN "PollToken" ELSE "InspectForm")
    /\ UNCHANGED <<env, email, password, authEvals, authMatched, dom, filled,
                   verified, verifyCalls, books, call>>

\* lines 105-130: the fields of the first form, then its action attribute
InspectForm ==
    /\ pc = "InspectForm"
    /\ trace' = Append(trace, "InspectForm")
    /\ \E fields \in {Ok(0), Ok(2), Err}, form_action \in {Ok(None), Ok(Some(1)), Err} :
         IF ~fields.ok /\ OnError("inspectForm") = "propagate"
         THEN Propagate("inspectForm") /\ log' = log
         ELSE IF ~form_action.ok /\ OnError("formAction") = "propagate"
         THEN Propagate("formAction") /\ log' = log \cup {"Found input fields"}
         ELSE Goto("LoadCredentials") /\ log' = log \cup {"Found input fields"}
    /\ UNCHANGED <<absorbedAt, env, email, password, attempt, tokenEvals,
                   tokenTrueAt, authEvals, authMatched, dom, filled, verified,
                   verifyCalls, books, call>>

\* lines 132-141: dotenv, the two variables, the early return
LoadCredentials ==
    /\ pc = "LoadCredentials"
    /\ trace' = Append(trace, "LoadCredentials")
    /\ \E file \in DotenvFiles :
         /\ env' = dotenv(env, file)
         /\ email' = unwrap_or_default(env'.LEANPUB_EMAIL, <<>>)
         /\ password' = unwrap_or_default(env'.LEANPUB_PASSWORD, <<>>)
    /\ IF credentials_missing(email', password')
       THEN /\ log' = log \cup {"LEANPUB_EMAIL or LEANPUB_PASSWORD missing"}
            /\ ReturnOk
       ELSE /\ log' = log
            /\ Goto("FillAndSubmit")
    /\ UNCHANGED <<absorbedAt, attempt, tokenEvals, tokenTrueAt, authEvals,
                   authMatched, dom, filled, verified, verifyCalls, books, call>>

(***************************************************************************)
(* Hrefs, anchor texts, titles and URLs the pages are built from.           *)
(***************************************************************************)
\* "/my-book/overview"
H_MY_BOOK ==
    <<"/", "m", "y", "-", "b", "o", "o", "k", "/", "o", "v", "e", "r", "v",
      "i", "e", "w">>

\* "/other/sub/overview"
H_NESTED ==
    <<"/", "o", "t", "h", "e", "r", "/", "s", "u", "b", "/", "o", "v", "e",
      "r", "v", "i", "e", "w">>

\* "/empty/overview"
H_EMPTY ==
    <<"/", "e", "m", "p", "t", "y", "/", "o", "v", "e", "r", "v", "i", "e",
      "w">>

\* "/overview"
H_ROOT ==
    <<"/", "o", "v", "e", "r", "v", "i", "e", "w">>

\* "https://leanpub.com/my-book/overview"
H_ABSOLUTE ==
    <<"h", "t", "t", "p", "s", ":", "/", "/", "l", "e", "a", "n", "p", "u",
      "b", ".", "c", "o", "m", "/", "m", "y", "-", "b", "o", "o", "k", "/",
      "o", "v", "e", "r", "v", "i", "e", "w">>

\* "other/overview"
H_RELATIVE ==
    <<"o", "t", "h", "e", "r", "/", "o", "v", "e", "r", "v", "i", "e", "w">>

\* "/other/overview?tab=1#top"
H_QUERY ==
    <<"/", "o", "t", "h", "e", "r", "/", "o", "v", "e", "r", "v", "i", "e",
      "w", "?", "t", "a", "b", "=", "1", "#", "t", "o", "p">>

\* "/my-book/overview/"
H_TRAILING ==
    <<"/", "m", "y", "-", "b", "o", "o", "k", "/", "o", "v", "e", "r", "v",
      "i", "e", "w", "/">>

\* "https://"
H_NO_HOST ==
    <<"h", "t", "t", "p", "s", ":", "/", "/">>

\* "https://leanpub.com//overview"
H_EMPTY_ID ==
    <<"h", "t", "t", "p", "s", ":", "/", "/", "l", "e", "a", "n", "p", "u",
      "b", ".", "c", "o", "m", "/", "/", "o", "v", "e", "r", "v", "i", "e",
      "w">>

\* "/my-book"
H_BOOK_PAGE ==
    <<"/", "m", "y", "-", "b", "o", "o", "k">>

\* "My Book"
T_MY_BOOK ==
    <<"M", "y", " ", "B", "o", "o", "k">>

\* "Duplicate"
T_DUPLICATE ==
    <<"D", "u", "p", "l", "i", "c", "a", "t", "e">>

\* "Nested"
T_NESTED ==
    <<"N", "e", "s", "t", "e", "d">>

\* " Other Book\n"
T_PADDED ==
    <<" ", "O", "t", "h", "e", "r", " ", "B", "o", "o", "k", "\n">>

\* " \t"
T_BLANK ==
    <<" ", "\t">>

\* "Home"
T_HOME ==
    <<"H", "o", "m", "e">>

\* "Log in"
T_LOGIN ==
    <<"L", "o", "g", " ", "i", "n">>

\* "Leanpub - Your Book"
T_YOUR_BOOK ==
    <<"L", "e", "a", "n", "p", "u", "b", " ", "-", " ", "Y", "o", "u", "r",
      " ", "B", "o", "o", "k">>

\* "Leanpub -  Your Books"
T_DOUBLE_SPACE ==
    <<"L", "e", "a", "n", "p", "u", "b", " ", "-", " ", " ", "Y", "o", "u",
      "r", " ", "B", "o", "o", "k", "s">>

\* "Your Books"
T_INNER ==
    <<"Y", "o", "u", "r", " ", "B", "o", "o", "k", "s">>

\* "https://leanpub.com/author_dashboard/books/published/"
U_TRAILING_SLASH ==
    <<"h", "t", "t", "p", "s", ":", "/", "/", "l", "e", "a", "n", "p", "u",
      "b", ".", "c", "o", "m", "/", "a", "u", "t", "h", "o", "r", "_", "d",
      "a", "s", "h", "b", "o", "a", "r", "d", "/", "b", "o", "o", "k", "s",
      "/", "p", "u", "b", "l", "i", "s", "h", "e", "d", "/">>

\* " https://leanpub.com/author_dashboard/books/published"
U_PADDED ==
    <<" ", "h", "t", "t", "p", "s", ":", "/", "/", "l", "e", "a", "n", "p",
      "u", "b", ".", "c", "o", "m", "/", "a", "u", "t", "h", "o", "r", "_",
      "d", "a", "s", "h", "b", "o", "a", "r", "d", "/", "b", "o", "o", "k",
      "s", "/", "p", "u", "b", "l", "i", "s", "h", "e", "d">>

\* "http://leanpub.com/author_dashboard/books/published"
U_HTTP ==
    <<"h", "t", "t", "p", ":", "/", "/", "l", "e", "a", "n", "p", "u", "b",
      ".", "c", "o", "m", "/", "a", "u", "t", "h", "o", "r", "_", "d", "a",
      "s", "h", "b", "o", "a", "r", "d", "/", "b", "o", "o", "k", "s", "/",
      "p", "u", "b", "l", "i", "s", "h", "e", "d">>

Anchor(h, t) ==
    [href |-> h, text |-> t]

\* The four anchors of the extraction scenario
ScenarioAnchors ==
    <<Anchor(H_MY_BOOK, T_MY_BOOK), Anchor(H_MY_BOOK, T_DUPLICATE),
      Anchor(H_NESTED, T_NESTED), Anchor(H_EMPTY, <<>>)>>

\* What the evaluation of line 65 may meet inside login(): a failure, or a
\* page with these anchors
DashboardPages ==
    {Err, Ok(<<>>), Ok(ScenarioAnchors),
     Ok(<<Anchor(H_RELATIVE, T_PADDED), Anchor(H_ROOT, T_HOME)>>)}

\* lines 143-168: escape, splice, evaluate
FillAndSubmit ==
    /\ pc = "FillAndSubmit"
    /\ trace' = Append(trace, "FillAndSubmit")
    /\ \E page \in LoginPages, evalOk \in BOOLEAN, ran \in BOOLEAN :
         LET safe_email == escape_quotes(email)
             safe_password == escape_quotes(password)
             js == fill_and_submit(page, safe_email, safe_password)
             r == IF evalOk /\ js.ok THEN Ok(js.val.ret) ELSE Err
         IN  \* a failed evaluation may or may not have run the script
             /\ dom' = IF js.ok /\ (evalOk \/ ran) THEN Some(js.val.page) ELSE Some(page)
             /\ IF ~r.ok /\ OnError("fill") = "propagate"
                THEN /\ Propagate("fill")
                     /\ filled' = filled
                     /\ log' = log
                ELSE /\ filled' = Some(unwrap_or_default(r, FALSE))
                     /\ log' = log \cup {IF filled'.val
                                         THEN "Filled credentials and submitted form"
                                         ELSE "Failed to locate form fields to fill"}
                     /\ Goto("PollAuthHeuristic")
    /\ UNCHANGED <<absorbedAt, env, email, password, attempt, tokenEvals,
                   tokenTrueAt, authEvals, authMatched, verified, verifyCalls,
                   books, call>>

\* lines 171-180: one iteration of the location.href poll
PollAuthHeuristic ==
    /\ pc = "PollAuthHeuristic"
    /\ trace' = IF authEvals = 0 THEN Append(trace, "PollAuthHeuristic") ELSE trace
    /\ \E r \in PollUrlReads :
         IF ~r.ok /\ OnError("authPoll") = "propagate"
         THEN /\ Propagate("authPoll")
              /\ UNCHANGED <<log, absorbedAt, authEvals, authMatched>>
         ELSE LET url == unwrap_or_default(r, <<>>)
              IN  /\ authEvals' = authEvals + 1
                  /\ absorbedAt' = IF r.ok THEN absorbedAt ELSE "authPoll"
                  /\ authMatched' = auth_heuristic(url)
                  /\ IF authMatched'
                     THEN /\ log' = log \cup {"Login likely successful"}
                          /\ Goto("LogTitleAndIndicator")
                     ELSE /\ log' = log
                          /\ Goto(IF auth_loop_continues(authEvals + 1)
                                  THEN "PollAuthHeuristic"
                                  ELSE "LogTitleAndIndicator")
    /\ UNCHANGED <<env, email, password, attempt, tokenEvals, tokenTrueAt, dom,
                   filled, verified, verifyCalls, books, call>>

\* lines 182-190: the title, the user indicator, and the test of line 190
LogTitleAndIndicator ==
    /\ pc = "LogTitleAndIndicator"
    /\ trace' = Append(trace, "LogTitleAndIndicator")
    /\ \E title \in {Ok(T_LOGIN), Err}, user_indicator \in {Ok(None), Ok(Some(T_HOME)), Err} :
         IF ~title.ok /\ OnError("title") = "propagate"
         THEN Propagate("title") /\ UNCHANGED <<log, absorbedAt>>
         ELSE IF ~user_indicator.ok /\ OnError("userIndicator") = "propagate"
         THEN Propagate("userIndicator") /\ UNCHANGED <<log, absorbedAt>>
         ELSE /\ absorbedAt' = IF ~user_indicator.ok THEN "userIndicator"
                               ELSE IF ~title.ok THEN "title"
                               ELSE absorbedAt
              /\ log' = log \cup {"Page title after submit"}
              /\ IF ~is_empty(email) THEN Goto("VerifyLogin") ELSE ReturnOk
    /\ UNCHANGED <<env, email, password, attempt, tokenEvals, tokenTrueAt,
                   authEvals, authMatched, dom, filled, verified, verifyCalls,
                   books, call>>

\* lines 191 and 201-204: the call of verify_login and the match on its value
VerifyLogin ==
    /\ pc = "VerifyLogin"
    /\ trace' = Append(trace, "VerifyLogin")
    /\ verifyCalls' = verifyCalls + 1
    /\ \E nav \in {Ok(TRUE), Err}, urlRead \in VerifyUrlReads, titleRead \in VerifyTitleReads :
         LET v == verify_login(nav, urlRead, titleRead)
         IN  IF ~v.ret.ok /\ OnError("verifyLogin") = "propagate"
             THEN Propagate("verifyLogin") /\ UNCHANGED <<log, absorbedAt, verified>>
             ELSE /\ verified' = Some(v.ret.val)
                  /\ absorbedAt' = IF v.absorbed = "none" THEN absorbedAt ELSE v.absorbed
                  /\ IF proceeds_to_fetch(v.ret.val)
                     THEN /\ log' = log \cup v.log
                          /\ Goto("ExtractLinks")
                     ELSE /\ log' = log \cup v.log \cup {"Login failed; exiting"}
                          /\ ReturnOk
    /\ UNCHANGED <<env, email, password, attempt, tokenEvals, tokenTrueAt,
                   authEvals, authMatched, dom, filled, books, call>>

\* lines 192-200 and 208: the call of fetch_published_books and its two arms
ExtractLinks ==
    /\ pc = "ExtractLinks"
    /\ trace' = Append(trace, "ExtractLinks")
    /\ \E page \in DashboardPages :
         LET list == fetch_published_books(page)
         IN  IF ~list.ok /\ OnError("fetch") = "propagate"
             THEN Propagate("fetch") /\ UNCHANGED <<log, absorbedAt, books>>
             ELSE /\ books' = IF list.ok THEN Some(list.val) ELSE None
                  /\ absorbedAt' = IF list.ok THEN absorbedAt ELSE "fetch"
                  /\ log' = log \cup {IF list.ok THEN "Published books"
                                      ELSE "Failed to fetch published books"}
                  /\ ReturnOk
    /\ UNCHANGED <<env, email, password, attempt, tokenEvals, tokenTrueAt,
                   authEvals, authMatched, dom, filled, verified, verifyCalls,
                   call>>

Next ==
    \/ Bootstrap
    \/ Navigate
    \/ PollToken
    \/ InspectForm
    \/ LoadCredentials
    \/ FillAndSubmit
    \/ PollAuthHeuristic
    \/ LogTitleAndIndicator
    \/ VerifyLogin
    \/ ExtractLinks

Spec ==
    Init /\ [][Next]_vars

\* login() runs on one task whose every await returns: a step that can be
\* taken is taken
FairSpec ==
    Spec /\ WF_vars(Next)

(***************************************************************************)
(* verify_login and fetch_published_books called on their own: the page is *)
(* drawn when the call is made, and the call returns in one step.          *)
(***************************************************************************)
\* Longest run of white space put before and after a title
MaxPad ==
    1

\* Most anchors of an enumerated page
MaxAnchors ==
    2

Pads ==
    UNION {[1..n -> WhiteSpace] : n \in 0..MaxPad}

Titles ==
    {l \o b \o r : l \in Pads, r \in Pads,
                    b \in {YOUR_BOOKS_TITLE, <<>>, T_LOGIN, T_YOUR_BOOK,
                           T_DOUBLE_SPACE, T_INNER}}

Urls ==
    {PUBLISHED_URL, LOGIN_URL, U_TRAILING_SLASH, U_PADDED, U_HTTP}

Hrefs ==
    {H_MY_BOOK, H_NESTED, H_EMPTY, H_ROOT, H_ABSOLUTE, H_RELATIVE, H_QUERY,
     H_TRAILING, H_NO_HOST, H_BOOK_PAGE, H_EMPTY_ID}

Texts ==
    {T_MY_BOOK, T_DUPLICATE, T_PADDED, T_BLANK, <<>>}

Anchors ==
    {Anchor(h, t) : h \in Hrefs, t \in Texts}

Pages ==
    UNION {[1..n -> Anchors] : n \in 0..MaxAnchors} \cup {ScenarioAnchors}

\* login() is not running
Idle ==
    /\ pc = "call"
    /\ result = "running"
    /\ trace = <<>>
    /\ log = {}
    /\ fatalSite = "none"
    /\ absorbedAt = "none"
    /\ env = [LEANPUB_EMAIL |-> Err, LEANPUB_PASSWORD |-> Err]
    /\ email = <<>>
    /\ password = <<>>
    /\ attempt = 0
    /\ tokenEvals = 0
    /\ tokenTrueAt = 0
    /\ authEvals = 0
    /\ authMatched = FALSE
    /\ dom = None
    /\ filled = None
    /\ verified = None
    /\ verifyCalls = 0
    /\ books = None

workflow ==
    <<pc, result, trace, log, fatalSite, absorbedAt, env, email, password,
      attempt, tokenEvals, tokenTrueAt, authEvals, authMatched, dom, filled,
      verified, verifyCalls, books>>

VerifyInit ==
    /\ Idle
    /\ call \in [fn : {"verify_login"}, nav : {Ok(TRUE), Err},
                  urlRead : {Ok(u) : u \in Urls} \cup {Err},
                  titleRead : {Ok(t) : t \in Titles} \cup {Err},
                  returned : {FALSE}, ret : {Err}]

\* lines 21-42
CallVerifyLogin ==
    /\ call.fn = "verify_login"
    /\ ~call.returned
    /\ call' = [call EXCEPT
                   !.returned = TRUE,
                   !.ret = verify_login(call.nav, call.urlRead, call.titleRead).ret]
    /\ UNCHANGED workflow

VerifySpec ==
    VerifyInit /\ [][CallVerifyLogin]_vars

FetchInit ==
    /\ Idle
    /\ call \in [fn : {"fetch_published_books"},
                  page : {Ok(a) : a \in Pages} \cup {Err},
                  returned : {FALSE}, ret : {Err}]

\* lines 45-67
CallFetchPublishedBooks ==
    /\ call.fn = "fetch_published_books"
    /\ ~call.returned
    /\ call' = [call EXCEPT !.returned = TRUE,
                            !.ret = fetch_published_books(call.page)]
    /\ UNCHANGED workflow

FetchSpec ==
    FetchInit /\ [][CallFetchPublishedBooks]_vars

(***************************************************************************)
(* Properties.                                                             *)
(***************************************************************************)
Steps ==
    {trace[i] : i \in 1..Len(trace)}

LastStep ==
    IF Len(trace) = 0 THEN "none" ELSE trace[Len(trace)]

\* A variable of the environment is unset or empty
Missing(v) ==
    ~v.ok \/ v.val = <<>>

\* C1: with LEANPUB_EMAIL or LEANPUB_PASSWORD unset or empty (after dotenv),
\* neither the fill-and-submit step, nor the auth-URL poll, nor verify_login,
\* nor fetch_published_books is ever executed; once the credentials check has
\* run, the message has been logged and login() has returned Ok; and login()
\* ends otherwise only on an error propagated before the check.
C1_MissingCredentialsSkip ==
    (Missing(env.LEANPUB_EMAIL) \/ Missing(env.LEANPUB_PASSWORD))
    => /\ Steps \cap {"FillAndSubmit", "PollAuthHeuristic", "VerifyLogin",
                       "ExtractLinks"} = {}
       /\ dom = None /\ filled = None /\ authEvals = 0
       /\ verifyCalls = 0 /\ verified = None /\ books = None
       /\ "LoadCredentials" \in Steps
          => /\ pc = "done"
             /\ result = "Ok"
             /\ "LEANPUB_EMAIL or LEANPUB_PASSWORD missing" \in log
       /\ (pc = "done" /\ "LoadCredentials" \notin Steps)
          => /\ result = "Err"
             /\ fatalSite \in {"bootstrap", "navigate", "inspectForm", "formAction"}

\* C1 witness: the email is set, the password is not, and login() returned Ok
\* from the credentials check
C1_Witness ==
    /\ pc = "done" /\ result = "Ok" /\ LastStep = "LoadCredentials"
    /\ env.LEANPUB_EMAIL = Ok(EMAIL)
    /\ ~env.LEANPUB_PASSWORD.ok

\* t is the expected title with nothing but white space before and after it
IsPaddedTitle(t) ==
    \E i \in 1..(Len(t) + 1), j \in 0..Len(t) :
        /\ SubSeq(t, i, j) = YOUR_BOOKS_TITLE
        /\ \A k \in (1..(i - 1)) \cup ((j + 1)..Len(t)) : t[k] \in WhiteSpace

\* C2: verify_login always returns Ok, and returns Ok(true) exactly when the
\* navigation succeeded, the URL read is the literal PUBLISHED_URL and the
\* title read is "Leanpub - Your Books" up to surrounding white space; a
\* failed navigation or a failed read gives Ok(false).
C2_VerifyIffUrlAndTrimmedTitle ==
    (call.fn = "verify_login" /\ call.returned)
    => /\ call.ret.ok
       /\ call.ret.val <=> /\ call.nav.ok
                           /\ call.urlRead.ok
                           /\ call.urlRead.val = PUBLISHED_URL
                           /\ call.titleRead.ok
                           /\ IsPaddedTitle(call.titleRead.val)

\* C2 witness: the expected URL with the title " Leanpub - Your Books "
\* verifies
C2_Witness ==
    /\ call.fn = "verify_login" /\ call.returned
    /\ call.urlRead = Ok(PUBLISHED_URL)
    /\ call.titleRead = Ok(<<" ">> \o YOUR_BOOKS_TITLE \o <<" ">>)
    /\ call.ret = Ok(TRUE)

\* The identifier of an anchor as the extraction contract words it: the
\* resolved path is "/<identifier>/overview", the identifier non-empty and
\* without a separator, and the trimmed text non-empty
Qualifies(a) ==
    LET url == url_pathname(a.href)
    IN  /\ url.ok
        /\ Len(url.val) > Len(OVERVIEW) + 1
        /\ Head(url.val) = "/"
        /\ endsWith(url.val, OVERVIEW)
        /\ ~includes(SubSeq(url.val, 2, Len(url.val) - Len(OVERVIEW)), "/")
        /\ Len(js_trim(a.text)) > 0

IdentifierOf(a) ==
    LET path == url_pathname(a.href).val
    IN  SubSeq(path, 2, Len(path) - Len(OVERVIEW))

\* The index of the first qualifying anchor with this identifier
FirstWith(anchors, id) ==
    CHOOSE i \in 1..Len(anchors) :
        /\ Qualifies(anchors[i]) /\ IdentifierOf(anchors[i]) = id
        /\ \A j \in 1..(i - 1) :
              ~(Qualifies(anchors[j]) /\ IdentifierOf(anchors[j]) = id)

C4_TokenPollStopsAtFirstTrue ==
    /\ tokenEvals <= TokenAttempts
    /\ tokenTrueAt # 0
       => /\ tokenTrueAt \in 1..TokenAttempts
          /\ tokenEvals = tokenTrueAt
          /\ pc # "PollToken"

\* C4 witness: the predicate became true on an attempt after the first and
\* before the last, and login() ran to its end
C4_Witness ==
    /\ tokenTrueAt > 1 /\ tokenTrueAt < TokenAttempts
    /\ tokenEvals = tokenTrueAt
    /\ pc = "done" /\ "ExtractLinks" \in Steps

\* C5 as claimed: a failed initial navigation is logged and is not an error
\* of login().
C5_NavigationFailureNotFatal ==
    (LastStep = "Navigate" /\ pc = "done")
    => ("Navigation failed" \in log /\ result # "Err")

\* C5 amended: a failed initial navigation leaves login() as an error right
\* at the Navigate step, with nothing logged; login() never logs a
\* navigation failure and goes on.
C5_NavigationFailurePropagates ==
    /\ (LastStep = "Navigate" /\ pc = "done")
       => (result = "Err" /\ fatalSite = "navigate" /\ log = {})
    /\ fatalSite = "navigate"
       => (pc = "done" /\ result = "Err" /\ LastStep = "Navigate")
    /\ "Navigation failed" \notin log
    /\ absorbedAt # "navigate"

\* C5 witness: the navigation failed and login() returned the error
C5_Witness ==
    fatalSite = "navigate" /\ pc = "done" /\ result = "Err"

\* The step that leaves the reCAPTCHA poll with its attempts exhausted
TokenPollExhausts ==
    pc = "PollToken" /\ pc' # "PollToken" /\ tokenTrueAt' = 0 /\ fatalSite' = "none"

\* The step that leaves the location.href poll with its attempts exhausted
AuthPollExhausts ==
    /\ pc = "PollAuthHeuristic" /\ pc' # "PollAuthHeuristic"
    /\ ~authMatched' /\ fatalSite' = "none"

\* C6 as claimed: the step that exhausts either poll logs a warning and goes
\* on to the next step.
C6_BothPollsWarnOnTimeout ==
    [][/\ TokenPollExhausts => (log' # log /\ pc' = "InspectForm")
       /\ AuthPollExhausts => (log' # log /\ pc' = "LogTitleAndIndicator")]_vars

\* C6 amended: the step that exhausts the reCAPTCHA poll (30 evaluations)
\* logs the timeout message and goes on to InspectForm; the step that
\* exhausts the location.href poll (20 evaluations) logs nothing and goes on
\* to LogTitleAndIndicator; neither ends login() or makes it fail.
C6_OnlyTokenPollWarnsOnTimeout ==
    [][/\ TokenPollExhausts
          => /\ "reCAPTCHA field not populated within timeout" \in log' \ log
             /\ tokenEvals' = TokenAttempts
             /\ pc' = "InspectForm" /\ result' = "running"
       /\ AuthPollExhausts
          => /\ log' = log
             /\ authEvals' = AuthAttempts
             /\ pc' = "LogTitleAndIndicator" /\ result' = "running"]_vars

\* C6 witness: both polls ran out and login() still returned Ok
C6_Witness ==
    /\ tokenEvals = TokenAttempts /\ tokenTrueAt = 0
    /\ authEvals = AuthAttempts /\ ~authMatched
    /\ "reCAPTCHA field not populated within timeout" \in log
    /\ pc = "done" /\ result = "Ok"

\* C7: verify_login is called at most once; fetch_published_books is reached
\* only with verify_login having returned true; and when it returned false
\* login() has returned Ok without fetching.
C7_FetchOnlyAfterVerified ==
    /\ verifyCalls <= 1
    /\ (pc = "ExtractLinks" \/ "ExtractLinks" \in Steps \/ books # None)
       => (verified = Some(TRUE) /\ verifyCalls = 1)
    /\ verified = Some(FALSE)
       => /\ pc = "done" /\ result = "Ok"
          /\ "ExtractLinks" \notin Steps /\ books = None
          /\ "Login failed; exiting" \in log

\* C7 witness: verify_login returned false and login() ended
C7_Witness ==
    verified = Some(FALSE) /\ pc = "done" /\ LastStep = "VerifyLogin"

\* C8: once the fill-and-submit evaluation has returned, `filled` is true
\* exactly when both inputs were found; each input found holds its credential;
\* the form was submitted exactly when the script's form (the email input's
\* form if that input exists, else the document's first form) exists; and
\* with `filled` false login() still goes through the auth-URL poll to
\* verify_login.
C8_FillAndSubmitPartial ==
    filled # None
    => LET page == dom.val
       IN  /\ filled.val <=> (page.emailInput /\ page.pwInput)
           /\ page.emailValue = IF page.emailInput THEN email ELSE <<>>
           /\ page.pwValue = IF page.pwInput THEN password ELSE <<>>
           /\ page.submitted
              <=> IF page.emailInput THEN page.emailForm ELSE page.firstForm
           /\ fatalSite = "none"
           /\ pc \in {"PollAuthHeuristic", "LogTitleAndIndicator", "VerifyLogin",
                       "ExtractLinks", "done"}
           /\ pc = "done" => (authEvals >= 1 /\ verifyCalls = 1)

\* C8 witness: the email input is missing, the password input was set, the
\* first form was submitted, `filled` is false, and verify_login has run
C8_Witness ==
    /\ filled = Some(FALSE)
    /\ dom # None
    /\ ~dom.val.emailInput /\ dom.val.pwInput /\ dom.val.pwValue = PASSWORD
    /\ dom.val.submitted
    /\ authEvals >= 1 /\ verifyCalls = 1 /\ pc = "done"

\* The order of the workflow's steps
StepOrder ==
    <<"Navigate", "PollToken", "InspectForm", "LoadCredentials", "FillAndSubmit",
      "PollAuthHeuristic", "VerifyLogin", "ExtractLinks">>

IsOrderedStep(s) ==
    \E i \in 1..Len(StepOrder) : StepOrder[i] = s

\* The steps executed are the first steps of StepOrder, each once
StepsInOrder ==
    LET ran == SelectSeq(trace, IsOrderedStep)
    IN  /\ Len(ran) <= Len(StepOrder)
        /\ ran = SubSeq(StepOrder, 1, Len(ran))
        /\ \A i, j \in 1..Len(trace) : i # j => trace[i] # trace[j]

\* C9: with every call into the engine returning, login() returns; its steps
\* run in the order of StepOrder, none of them twice, and the two polls make
\* at most 30 + 20 evaluations together.
C9_TerminatesInOrder ==
    /\ [](StepsInOrder /\ tokenEvals + authEvals <= TokenAttempts + AuthAttempts)
    /\ <>(pc = "done")

\* C9 witness: a run through every step with both polls exhausted
C9_Witness ==
    /\ pc = "done"
    /\ SelectSeq(trace, IsOrderedStep) = StepOrder
    /\ tokenEvals + authEvals = TokenAttempts + AuthAttempts

\* The step each propagating evaluation belongs to
StepOfSite(site) ==
    CASE site = "inspectForm" -> "InspectForm"
      [] site = "formAction" -> "InspectForm"
      [] site = "fill" -> "FillAndSubmit"
      [] site = "bootstrap" -> "Bootstrap"
      [] site = "navigate" -> "Navigate"
      [] OTHER -> "none"

====
